---- MODULE Spec2Model ----
(***************************************************************************)
(* prometheus_sanic.base: monitor(), its listeners and middleware, and     *)
(* MonitorSetup (expose_endpoint / start_server / _get_metrics_data).      *)
(*                                                                         *)
(* One worker process is modelled in full (set-up, server life cycle,      *)
(* overlapping requests, scrapes); its sibling workers, which run the same *)
(* code, appear through what they leave in the shared multiprocess         *)
(* directory.                                                              *)
(***************************************************************************)
EXTENDS Integers, Sequences, FiniteSets, TLC

\* ------------------------------------------------------------------ bounds
MaxReqs == 2      \* request slots that may be in flight together
MaxTime == 1      \* ticks of the clock
MaxStarts == 2    \* runs of the before_server_start listener
MaxPeerOps == 2   \* steps taken by sibling workers
MaxEnvFlips == 1  \* changes of os.environ after set-up
MaxCalls == 2     \* calls of start_server / _get_metrics_data

\* ------------------------------------------------------------------ values
Reqs == 1..MaxReqs

\* request.path, as its segments: "/metrics", "/b/x"
metrics_path == <<"metrics">>
Paths == {metrics_path, <<"b", "x">>}
Methods == {"GET", "OPTIONS"}

EndpointTypes == {"url", "url:1", "custom"}
HandlerArgs == {"None", "custom"}

\* what a caller's get_endpoint_fn answers, and the `endpoint` label values
CustomLabel == <<"c">>
Labels == {<<"a">>, <<"b">>, <<"b", "x">>, CustomLabel}

\* process identifiers: this worker's, and its siblings'
getpid == "p1"
PeerPIDs == {"p2"}
PIDs == {getpid} \cup PeerPIDs

Ports == {8000, 9000}

VARIABLES
  env,              \* 'prometheus_multiproc_dir' in os.environ
  envFlips,
  envAtSetup,       \* os.environ's state when monitor() ran
  setup,            \* "none" | "ok" (a MonitorSetup was returned) | "failed"
  cfg,              \* the arguments monitor() was called with
  multiprocess_on,  \* MonitorSetup._multiprocess_on
  registered,       \* the app's listeners and middleware installed by monitor()
  server,           \* "stopped" | "running" | "failed"
  starts,
  ctx_metrics,      \* app.ctx.metrics: [id, names]; id -1 unset, 0 the
                    \* init_metrics_object, k > 0 the k-th new dict
  registry_names,   \* metric names registered in core.REGISTRY
  constructed,      \* how many times the metric set was constructed
  REGISTRY,         \* core.REGISTRY's request counts, by label
  shards,           \* the multiprocess directory: pid -> (label -> count)
  deadCalls,        \* calls of mark_process_dead made: <<caller, pid>>
  deadPids,         \* pids marked dead and not taken by a new worker since
  peers,            \* sibling workers alive
  peerOps,
  req,              \* the request slots
  now,              \* time.time()
  scrape,           \* the last _get_metrics_data call
  sinceScrape,      \* whether a sample was recorded since it
  nScrapes,
  ssCalls,          \* the start_server calls made
  listening         \* ports a standalone listener is bound to

vars == <<env, envFlips, envAtSetup, setup, cfg, multiprocess_on, registered,
          server, starts, ctx_metrics, registry_names, constructed, REGISTRY,
          shards, deadCalls, deadPids, peers, peerOps, req, now, scrape,
          sinceScrape, nScrapes, ssCalls, listening>>

setupVars == <<envAtSetup, setup, cfg, multiprocess_on, registered>>
metricVars == <<ctx_metrics, registry_names, constructed>>
valueVars == <<REGISTRY, shards>>
peerVars == <<peers, peerOps, deadCalls, deadPids>>
reqVars == <<req, now>>
ssVars == <<ssCalls, listening>>

NoCfg == [is_middleware |-> FALSE, before_handler |-> "None",
          after_handler |-> "None", init_metrics_object |-> "None",
          get_endpoint |-> "url"]

IdleReq == [phase |-> "idle", path |-> <<>>, method |-> "GET", start |-> -1,
            reqmw |-> FALSE, respmw |-> FALSE, raised |-> FALSE,
            response |-> "none", samples |-> 0, lat |-> -1, label |-> <<>>,
            hooks |-> <<>>, beforeAt |-> -1, afterAt |-> -1]

NoCounts == [l \in {} |-> 0]

Init ==
  /\ env \in BOOLEAN
  /\ envFlips = 0
  /\ envAtSetup = FALSE
  /\ setup = "none"
  /\ cfg = NoCfg
  /\ multiprocess_on = FALSE
  /\ registered = {}
  /\ server = "stopped"
  /\ starts = 0
  /\ ctx_metrics = [id |-> -1, names |-> {}]
  /\ registry_names = {}
  /\ constructed = 0
  /\ REGISTRY = NoCounts
  /\ shards = [p \in {} |-> NoCounts]
  /\ deadPids = {}
  /\ deadCalls = {}
  /\ peers = {}
  /\ peerOps = 0
  /\ req = [r \in Reqs |-> IdleReq]
  /\ now = 0
  /\ scrape = [kind |-> "none", out |-> NoCounts, collectors |-> 0,
               env |-> FALSE, dead |-> {}]
  /\ sinceScrape = FALSE
  /\ nScrapes = 0
  /\ ssCalls = {}
  /\ listening = {}

\* ------------------------------------------------------------ monitor()

\* endpoint.fn_by_type: the resolver for an endpoint_type, or a configuration
\* error for `custom` without a function.
fn_by_type(endpoint_type, get_endpoint_fn) ==
  IF endpoint_type = "custom"
    THEN IF get_endpoint_fn = "None" THEN "SanicPrometheusError" ELSE "custom"
    ELSE endpoint_type

\* multiprocess_on = 'prometheus_multiproc_dir' in os.environ
MultiprocessOn == env

\* what monitor() installs on the app once the endpoint function is resolved
RegisteredHooks(is_middleware, mp) ==
  {"before_server_start"}
    \cup (IF is_middleware THEN {"request", "response"} ELSE {})
    \cup (IF mp THEN {"after_server_stop"} ELSE {})

\* what monitor() has installed when fn_by_type raises: it is called first
HooksAtAbortLate(is_middleware, mp) == RegisteredHooks(is_middleware, mp)
HooksAtAbort(is_middleware, mp) == {}

\* monitor(app, ...), its arguments drawn from the given sets. Of the arguments
\* cfg keeps what the listeners and middleware close over.
MonitorWith(ETs, FNs, MWs, BHs, AHs, IMOs) ==
  /\ setup = "none"
  /\ \E et \in ETs, fn \in FNs, mw \in MWs, bh \in BHs, ah \in AHs, imo \in IMOs :
       LET mp == MultiprocessOn
           resolved == fn_by_type(et, fn)
       IN  IF resolved = "SanicPrometheusError"
             THEN /\ setup' = "failed"
                  /\ registered' = HooksAtAbort(mw, mp)
                  /\ UNCHANGED <<cfg, multiprocess_on>>
             ELSE /\ setup' = "ok"
                  /\ cfg' = [is_middleware |-> mw, before_handler |-> bh,
                             after_handler |-> ah, init_metrics_object |-> imo,
                             get_endpoint |-> resolved]
                  /\ multiprocess_on' = mp
                  /\ registered' = RegisteredHooks(mw, mp)
  /\ envAtSetup' = env
  /\ UNCHANGED <<env, envFlips, server, starts, metricVars, valueVars, peerVars,
                 reqVars, scrape, sinceScrape, nScrapes, ssVars>>

\* any call of monitor()
Monitor ==
  MonitorWith(EndpointTypes, {"None", "fn"}, BOOLEAN, HandlerArgs, HandlerArgs,
              {"None", "dict"})

\* monitor(app, endpoint_type, get_endpoint_fn, is_middleware, before_handler,
\* after_handler): the arguments the middleware depends on
MonitorHooks ==
  MonitorWith(EndpointTypes, {"None", "fn"}, BOOLEAN, HandlerArgs, HandlerArgs,
              {"None"})

\* monitor(app) and monitor(app, init_metrics_object={})
MonitorInitObject ==
  MonitorWith({"url:1"}, {"None"}, {TRUE}, {"None"}, {"None"}, {"None", "dict"})

\* monitor(app): every argument at its default
MonitorDefaults ==
  MonitorWith({"url:1"}, {"None"}, {TRUE}, {"None"}, {"None"}, {"None"})

\* os.environ is changed after monitor() returned
EnvFlip ==
  /\ setup # "none"
  /\ envFlips < MaxEnvFlips
  /\ env' = ~env
  /\ envFlips' = envFlips + 1
  /\ UNCHANGED <<setupVars, server, starts, metricVars, valueVars, peerVars,
                 reqVars, scrape, sinceScrape, nScrapes, ssVars>>

\* ------------------------------------------- before_server_start listener

MetricNames == {"request_latency", "request_count"}

\* init_app.ctx.metrics = {}, then init_metrics_object when one was passed.
\* k numbers the new dict; the init_metrics_object is one object, so it still
\* holds what an earlier start put in it.
CtxMetricsAtStart(old, imo, k) ==
  IF imo # "None"
    THEN [id |-> 0, names |-> IF old.id = 0 THEN old.names ELSE {}]
    ELSE [id |-> k, names |-> {}]

\* metrics.init: constructs the declared metrics app.ctx.metrics does not hold
\* yet and registers them in core.REGISTRY, which refuses a name it already has.
metrics_init(ctx, names) ==
  LET missing == MetricNames \ ctx.names
  IN  IF missing \cap names # {}
        THEN [raised |-> TRUE, ctx |-> ctx, names |-> names, built |-> 0]
        ELSE [raised |-> FALSE,
              ctx |-> [ctx EXCEPT !.names = @ \cup missing],
              names |-> names \cup missing,
              built |-> IF missing = {} THEN 0 ELSE 1]

\* the server starts: Sanic runs the before_server_start listeners, and serves
\* requests only if none of them raised. A worker that starts is alive again.
ServerStart ==
  /\ setup # "none"
  /\ server = "stopped"
  /\ starts < MaxStarts
  /\ starts' = starts + 1
  /\ IF "before_server_start" \in registered
       THEN LET c0 == CtxMetricsAtStart(ctx_metrics, cfg.init_metrics_object,
                                        starts + 1)
                r == metrics_init(c0, registry_names)
            IN  /\ ctx_metrics' = r.ctx
                /\ registry_names' = r.names
                /\ constructed' = constructed + r.built
                /\ server' = IF r.raised THEN "failed" ELSE "running"
       ELSE /\ server' = "running"
            /\ UNCHANGED metricVars
  /\ deadPids' = deadPids \ {getpid}
  /\ UNCHANGED <<env, envFlips, setupVars, valueVars, peers, peerOps, deadCalls,
                 reqVars, scrape, sinceScrape, nScrapes, ssVars>>

\* ---------------------------------------------- after_server_stop listener

\* multiprocess.mark_process_dead(pid) removes the pid's live-gauge files
\* (gauge_livesum_<pid>.db, gauge_liveall_<pid>.db) and nothing else: the
\* counter and histogram files of the pid stay in the directory.
mark_process_dead(dir, pid) == dir

\* the server stops once no request is in flight; Sanic runs the
\* after_server_stop listeners.
ServerStop ==
  /\ server = "running"
  /\ \A r \in Reqs : req[r].phase \in {"idle", "done"}
  /\ server' = "stopped"
  /\ IF "after_server_stop" \in registered
       THEN /\ shards' = mark_process_dead(shards, getpid)
            /\ deadCalls' = deadCalls \cup {<<getpid, getpid>>}
            /\ deadPids' = deadPids \cup {getpid}
       ELSE UNCHANGED <<shards, deadCalls, deadPids>>
  /\ UNCHANGED <<env, envFlips, setupVars, starts, metricVars, REGISTRY, peers,
                 peerOps, reqVars, scrape, sinceScrape, nScrapes, ssVars>>

\* ------------------------------------------------------------- requests

Count(f, l) == IF l \in DOMAIN f THEN f[l] ELSE 0
Inc(f, l) == [x \in DOMAIN f \cup {l} |-> IF x = l THEN Count(f, l) + 1 ELSE f[x]]

\* the middleware's test: request.path != metrics_path and
\* request.method != "OPTIONS"
InstrumentedBeforeOptionsOnly(path, method) ==
  path # metrics_path /\ method = "OPTIONS"
InstrumentedBefore(path, method) == path # metrics_path /\ method # "OPTIONS"

InstrumentedAfterOr(path, method) == path # metrics_path \/ method # "OPTIONS"
InstrumentedAfter(path, method) == path # metrics_path /\ method # "OPTIONS"

\* before_handler / after_handler default to the package's handlers
BeforeHandler(arg) == IF arg = "None" THEN "before_request_handler" ELSE arg
AfterHandlerNoDefault(arg) == arg
AfterHandler(arg) ==
  IF arg = "None" THEN "after_request_endpoint_handler" ELSE arg

\* the endpoint functions: the path, its first n = 1 segments, or the caller's
Min(a, b) == IF a < b THEN a ELSE b
get_endpoint(kind, path) ==
  CASE kind = "url" -> path
    [] kind = "url:1" -> SubSeq(path, 1, Min(1, Len(path)))
    [] OTHER -> CustomLabel

Tick ==
  /\ now < MaxTime
  /\ now' = now + 1
  /\ UNCHANGED <<env, envFlips, setupVars, server, starts, metricVars, valueVars,
                 peerVars, req, scrape, sinceScrape, nScrapes, ssVars>>

\* a request reaches the running server
Arrive(r) ==
  /\ server = "running"
  /\ req[r].phase = "idle"
  /\ \A q \in Reqs : q < r => req[q].phase # "idle"
  /\ \E path \in Paths, method \in Methods :
       req' = [req EXCEPT ![r] = [IdleReq EXCEPT !.phase = "arrived",
                                                 !.path = path,
                                                 !.method = method]]
  /\ UNCHANGED <<env, envFlips, setupVars, server, starts, metricVars, valueVars,
                 peerVars, now, scrape, sinceScrape, nScrapes, ssVars>>

\* handlers.before_request_handler: the start time goes on the request's
\* context (beforeAt keeps when that was)
before_request_handler(q) == [q EXCEPT !.start = now, !.beforeAt = now]

\* the `request` middleware, before_request. A handler of the caller's may
\* raise; nothing catches it here, and Sanic answers the request with an error.
before_request(r) ==
  LET q0 == [req[r] EXCEPT !.reqmw = TRUE, !.phase = "handling",
                           !.response = "handler"]
      q == [q0 EXCEPT !.hooks = Append(@, "before")]
  IN  IF InstrumentedBefore(q0.path, q0.method)
        THEN IF BeforeHandler(cfg.before_handler) = "before_request_handler"
               THEN req' = [req EXCEPT ![r] = before_request_handler(q)]
               ELSE \E raises \in BOOLEAN :
                      req' = [req EXCEPT ![r] =
                                IF raises
                                  THEN [q EXCEPT !.raised = TRUE,
                                                 !.response = "error"]
                                  ELSE q]
        ELSE req' = [req EXCEPT ![r] = q0]

\* Sanic runs the request middleware, then the route handler
RequestPhase(r) ==
  /\ req[r].phase = "arrived"
  /\ IF "request" \in registered
       THEN before_request(r)
       ELSE req' = [req EXCEPT ![r].phase = "handling",
                               ![r].response = "handler"]
  /\ UNCHANGED <<env, envFlips, setupVars, server, starts, metricVars, valueVars,
                 peerVars, now, scrape, sinceScrape, nScrapes, ssVars>>

\* a request middleware registered before monitor()'s answers the request:
\* Sanic skips the request middleware after it and goes on to the response
\* middleware
RequestCutShort(r) ==
  /\ req[r].phase = "arrived"
  /\ "request" \in registered
  /\ req' = [req EXCEPT ![r].phase = "handling", ![r].response = "early"]
  /\ UNCHANGED <<env, envFlips, setupVars, server, starts, metricVars, valueVars,
                 peerVars, now, scrape, sinceScrape, nScrapes, ssVars>>

\* the sample of one request goes to the process's own values: core.REGISTRY,
\* or this pid's files in the multiprocess directory
Record(label) ==
  /\ sinceScrape' = TRUE
  /\ IF multiprocess_on
       THEN /\ shards' = [p \in DOMAIN shards \cup {getpid} |->
                            IF p = getpid
                              THEN Inc(IF p \in DOMAIN shards THEN shards[p]
                                                              ELSE NoCounts, label)
                              ELSE shards[p]]
            /\ UNCHANGED REGISTRY
       ELSE /\ REGISTRY' = Inc(REGISTRY, label)
            /\ UNCHANGED shards

\* handlers.after_request_endpoint_handler: skips a request without a start
\* time; a resolver that raises costs the sample and nothing else
after_request_endpoint_handler(r, q) ==
  IF q.start = -1
    THEN /\ req' = [req EXCEPT ![r] = q]
         /\ UNCHANGED <<valueVars, sinceScrape>>
    ELSE \E resolverRaises \in
              (IF cfg.get_endpoint = "custom" THEN BOOLEAN ELSE {FALSE}) :
           IF resolverRaises
             THEN /\ req' = [req EXCEPT ![r] = q]
                  /\ UNCHANGED <<valueVars, sinceScrape>>
             ELSE LET label == get_endpoint(cfg.get_endpoint, q.path)
                  IN  /\ req' = [req EXCEPT ![r] =
                                   [q EXCEPT !.samples = @ + 1,
                                             !.lat = now - q.start,
                                             !.label = label,
                                             !.afterAt = now]]
                      /\ Record(label)

\* the `response` middleware, before_response. Nothing catches what the
\* handler raises (a handler that is None cannot be called at all).
before_response(r) ==
  LET q == [req[r] EXCEPT !.respmw = TRUE, !.phase = "done"]
  IN  IF InstrumentedAfter(q.path, q.method)
        THEN LET h == AfterHandler(cfg.after_handler)
                 qa == [q EXCEPT !.hooks = Append(@, "after")]
             IN     CASE h = "after_request_endpoint_handler" ->
                           after_request_endpoint_handler(r, qa)
                      [] h = "None" ->
                           /\ req' = [req EXCEPT ![r] = [qa EXCEPT !.raised = TRUE]]
                           /\ UNCHANGED <<valueVars, sinceScrape>>
                      [] OTHER ->
                           /\ \E raises \in BOOLEAN :
                                req' = [req EXCEPT ![r] =
                                          [qa EXCEPT !.raised = @ \/ raises]]
                           /\ UNCHANGED <<valueVars, sinceScrape>>
        ELSE /\ req' = [req EXCEPT ![r] = q]
             /\ UNCHANGED <<valueVars, sinceScrape>>

\* Sanic runs the response middleware on the response, then sends it
ResponsePhase(r) ==
  /\ req[r].phase = "handling"
  /\ IF "response" \in registered
       THEN before_response(r)
       ELSE /\ req' = [req EXCEPT ![r].phase = "done"]
            /\ UNCHANGED <<valueVars, sinceScrape>>
  /\ UNCHANGED <<env, envFlips, setupVars, server, starts, metricVars, peerVars,
                 now, scrape, nScrapes, ssVars>>

\* ------------------------------------------------------- sibling workers

PeerStart(p) ==
  /\ setup = "ok" /\ multiprocess_on
  /\ p \notin peers
  /\ peerOps < MaxPeerOps
  /\ peers' = peers \cup {p}
  /\ deadPids' = deadPids \ {p}
  /\ peerOps' = peerOps + 1
  /\ UNCHANGED <<env, envFlips, setupVars, server, starts, metricVars, valueVars,
                 deadCalls, reqVars, scrape, sinceScrape, nScrapes, ssVars>>

\* a sibling's after-hook records one request
PeerRecord(p) ==
  /\ p \in peers
  /\ peerOps < MaxPeerOps
  /\ peerOps' = peerOps + 1
  /\ \E label \in {<<"a">>, <<"b">>} :
       shards' = [x \in DOMAIN shards \cup {p} |->
                    IF x = p
                      THEN Inc(IF p \in DOMAIN shards THEN shards[p] ELSE NoCounts,
                               label)
                      ELSE shards[x]]
  /\ sinceScrape' = TRUE
  /\ UNCHANGED <<env, envFlips, setupVars, server, starts, metricVars, REGISTRY,
                 peers, deadCalls, deadPids, reqVars, scrape, nScrapes, ssVars>>

\* a sibling's after_server_stop listener, with the sibling's own pid
PeerStop(p) ==
  /\ p \in peers
  /\ peers' = peers \ {p}
  /\ shards' = mark_process_dead(shards, p)
  /\ deadCalls' = deadCalls \cup {<<p, p>>}
  /\ deadPids' = deadPids \cup {p}
  /\ UNCHANGED <<env, envFlips, setupVars, server, starts, metricVars, REGISTRY,
                 peerOps, reqVars, scrape, sinceScrape, nScrapes, ssVars>>

\* -------------------------------------------------------- MonitorSetup

RECURSIVE SumOver(_, _, _)
SumOver(dir, pids, l) ==
  IF pids = {} THEN 0
  ELSE LET p == CHOOSE x \in pids : TRUE
       IN  Count(dir[p], l) + SumOver(dir, pids \ {p}, l)

\* multiprocess.MultiProcessCollector: the counts of every file in the
\* directory, added up by label set
MultiProcessCollect(dir) ==
  [l \in UNION {DOMAIN dir[p] : p \in DOMAIN dir} |-> SumOver(dir, DOMAIN dir, l)]

\* registry = CollectorRegistry(): the collectors on the registry the
\* aggregate is read from, before MultiProcessCollector(registry) adds its own
CollectorRegistryKept(before) == before
CollectorRegistry(before) == 0

\* which registry _get_metrics_data reads: `if not self._multiprocess_on`
UsesAggregateFromEnv == env
UsesAggregate == multiprocess_on

\* MonitorSetup._get_metrics_data, as the /metrics route or any caller runs it
\* (scrape.env and scrape.dead keep the environment and the dead pids then)
GetMetricsData ==
  /\ setup = "ok"
  /\ nScrapes < MaxCalls
  /\ nScrapes' = nScrapes + 1
  /\ IF ~UsesAggregate
       THEN scrape' = [kind |-> "process", out |-> REGISTRY,
                       collectors |-> scrape.collectors,
                       env |-> env, dead |-> deadPids]
       ELSE LET n == CollectorRegistry(scrape.collectors) + 1
                sum == MultiProcessCollect(shards)
            IN  scrape' = [kind |-> "aggregate",
                           out |-> [l \in DOMAIN sum |-> n * sum[l]],
                           collectors |-> n, env |-> env, dead |-> deadPids]
  /\ sinceScrape' = FALSE
  /\ UNCHANGED <<env, envFlips, setupVars, server, starts, metricVars, valueVars,
                 peerVars, reqVars, ssVars>>

\* start_server's guard: `if self._multiprocess_on: raise SanicPrometheusError`
StartServerRefusesNever(mp) == FALSE
StartServerRefuses(mp) == mp

\* MonitorSetup.start_server(addr, port)
StartServer ==
  /\ setup = "ok"
  /\ Cardinality(ssCalls) < MaxCalls
  /\ \E port \in Ports :
       IF StartServerRefuses(multiprocess_on)
         THEN /\ ssCalls' = ssCalls \cup
                   {[mp |-> multiprocess_on, env |-> env, port |-> port,
                     raised |-> "SanicPrometheusError", bound |-> FALSE]}
              /\ UNCHANGED listening
         ELSE /\ ssCalls' = ssCalls \cup
                   {[mp |-> multiprocess_on, env |-> env, port |-> port,
                     raised |-> IF port \in listening THEN "OSError" ELSE "none",
                     bound |-> port \notin listening]}
              /\ listening' = listening \cup {port}
  /\ UNCHANGED <<env, envFlips, setupVars, server, starts, metricVars, valueVars,
                 peerVars, reqVars, scrape, sinceScrape, nScrapes>>

\* the request pipeline of one worker, under every choice of hooks
Next ==
  \/ MonitorHooks
  \/ ServerStart
  \/ Tick
  \/ \E r \in Reqs : Arrive(r)
  \/ \E r \in Reqs : RequestPhase(r)
  \/ \E r \in Reqs : RequestCutShort(r)
  \/ \E r \in Reqs : ResponsePhase(r)

Spec == Init /\ [][Next]_vars

\* set-up under any arguments, the environment afterwards, and MonitorSetup
NextSetup ==
  \/ Monitor
  \/ EnvFlip
  \/ ServerStart
  \/ ServerStop
  \/ GetMetricsData
  \/ StartServer

SpecSetup == Init /\ [][NextSetup]_vars

\* server starts and restarts, with and without an init_metrics_object
NextStart ==
  \/ MonitorInitObject
  \/ ServerStart
  \/ ServerStop
  \/ \E r \in Reqs : Arrive(r)
  \/ \E r \in Reqs : RequestPhase(r)
  \/ \E r \in Reqs : ResponsePhase(r)

SpecStart == Init /\ [][NextStart]_vars

\* the deployment: the worker under the default configuration, its siblings
\* and the scrapes
NextDeploy ==
  \/ MonitorDefaults
  \/ ServerStart
  \/ ServerStop
  \/ \E r \in Reqs : Arrive(r)
  \/ \E r \in Reqs : RequestPhase(r)
  \/ \E r \in Reqs : ResponsePhase(r)
  \/ \E p \in PeerPIDs : PeerStart(p)
  \/ \E p \in PeerPIDs : PeerRecord(p)
  \/ \E p \in PeerPIDs : PeerStop(p)
  \/ GetMetricsData

SpecDeploy == Init /\ [][NextDeploy]_vars
\* ------------------------------------------------------------ properties

\* a request the middleware leaves alone by policy
Excluded(q) == q.path = metrics_path \/ q.method = "OPTIONS"

RECURSIVE Total(_, _)
Total(f, ls) ==
  IF ls = {} THEN 0
  ELSE LET l == CHOOSE x \in ls : TRUE
       IN  Count(f, l) + Total(f, ls \ {l})

RECURSIVE Samples(_)
Samples(rs) ==
  IF rs = {} THEN 0
  ELSE LET r == CHOOSE x \in rs : TRUE
       IN  req[r].samples + Samples(rs \ {r})

OwnShard == IF getpid \in DOMAIN shards THEN shards[getpid] ELSE NoCounts

\* C1: a request to the scrape path (any method) or with method OPTIONS (any
\* path) gets neither the before-hook nor the after-hook, and no sample is
\* recorded for it, whatever other requests came before or run beside it.
C1_ExcludedNeverHooked ==
  \A r \in Reqs :
    (req[r].phase # "idle" /\ Excluded(req[r]))
      => (req[r].hooks = <<>> /\ req[r].samples = 0)

\* C1's case: a GET of the scrape path went through both middleware after
\* another request was measured.
C1_Witness ==
  \E r, o \in Reqs :
    /\ req[r].phase = "done" /\ req[r].path = metrics_path
    /\ req[r].method = "GET" /\ req[r].reqmw /\ req[r].respmw
    /\ req[o].phase = "done" /\ req[o].samples = 1

C3_StartServerRefusedInMultiprocess ==
  \A c \in ssCalls :
    /\ c.mp => (c.raised = "SanicPrometheusError" /\ ~c.bound /\ listening = {})
    /\ ~c.mp => (c.raised # "SanicPrometheusError" /\ c.port \in listening)

\* C3's case: start_server was called in multiprocess mode.
C3_Witness ==
  \E c \in ssCalls : c.mp /\ c.raised = "SanicPrometheusError" /\ listening = {}

\* C4, as claimed: whatever a hook or the endpoint function raises stays inside
\* the middleware, and the request's own response is sent.
C4_HookErrorsSwallowed ==
  \A r \in Reqs :
    /\ ~req[r].raised
    /\ req[r].phase = "done" => req[r].response \in {"handler", "early"}

\* C5, as claimed: a second run of the before_server_start listener keeps the
\* metrics object the first run put in use, with the metric set in it, and
\* constructs the set no second time.
C5_SecondStartKeepsMetrics ==
  starts >= 2 => /\ ctx_metrics.id \in {0, 1}
                 /\ ctx_metrics.names = MetricNames
                 /\ constructed = 1

\* C6: in multiprocess mode a scrape reads a new registry with one collector
\* on it, and reports for every label set the sum of the counts in the
\* directory's files at that moment, a file without the label set adding
\* nothing; a scrape that follows another with no sample in between reports
\* the same totals.
C6_ScrapeSumsShards ==
  scrape.kind = "aggregate"
    => /\ scrape.collectors = 1
       /\ ~sinceScrape
            => \A l \in Labels :
                 Count(scrape.out, l) = SumOver(shards, DOMAIN shards, l)

\* C6's case: two workers recorded one request each under the same label, and
\* the second of two scrapes reports 2 for it.
C6_Witness ==
  /\ scrape.kind = "aggregate" /\ ~sinceScrape /\ nScrapes = 2
  /\ DOMAIN shards = PIDs
  /\ \A p \in PIDs : Count(shards[p], <<"b">>) = 1
  /\ Count(scrape.out, <<"b">>) = 2
  /\ Count(scrape.out, <<"a">>) = 0

\* C7, as claimed: the files of a pid marked dead add nothing to a later
\* aggregate scrape.
C7_DeadShardContributesZero ==
  (scrape.kind = "aggregate" /\ ~sinceScrape)
    => \A l \in Labels :
         Count(scrape.out, l) = SumOver(shards, DOMAIN shards \ scrape.dead, l)

\* C8: when monitor() fails on `custom` without a function, the app has no
\* listener and no middleware of monitor()'s and no MonitorSetup exists, so no
\* request is ever touched by a hook or answered with an error; and a
\* monitor() that returned has an endpoint function.
C8_CustomWithoutFunctionAbortsSetup ==
  /\ setup = "failed"
       => /\ registered = {}
          /\ cfg = NoCfg /\ ~multiprocess_on
          /\ ctx_metrics.id = -1
          /\ \A r \in Reqs :
               req[r].hooks = <<>> /\ ~req[r].raised /\ req[r].samples = 0
  /\ setup = "ok" => cfg.get_endpoint \in EndpointTypes

\* C8's case: set-up failed, the server ran all the same and answered a
\* request that would have been instrumented.
C8_Witness ==
  /\ setup = "failed"
  /\ \E r \in Reqs : req[r].phase = "done" /\ ~Excluded(req[r])

\* C9: with the package's after-handler, a request the before-hook never ran
\* for goes through the response middleware without a sample and without an
\* error, and its response is the one it had.
C9_MissingContextSkipped ==
  \A r \in Reqs :
    (/\ req[r].phase = "done" /\ req[r].respmw /\ ~Excluded(req[r])
     /\ ~req[r].reqmw /\ cfg.after_handler = "None")
      => /\ req[r].hooks = <<"after">>
         /\ req[r].samples = 0
         /\ ~req[r].raised
         /\ req[r].response = "early"

\* C9's case: the request phase was cut short before before_request, and the
\* response middleware ran.
C9_Witness ==
  \E r \in Reqs :
    /\ req[r].phase = "done" /\ req[r].respmw /\ ~req[r].reqmw
    /\ ~Excluded(req[r]) /\ cfg.after_handler = "None"
    /\ req[r].start = -1 /\ req[r].hooks = <<"after">>

====
